---- MODULE Spec2Model ----
(***************************************************************************)
(* Model of JobseekerDashboard (project/static/jobseekerDashboard.js).     *)
(*                                                                         *)
(* The browser runs one job at a time: a job runs from its start to its    *)
(* next await without anything else running.  `running` names the          *)
(* invocation whose synchronous code is on the stack; while it is set only *)
(* that invocation steps.  Program counters are named after source lines.  *)
(***************************************************************************)
EXTENDS Integers, Sequences, FiniteSets, TLC

\* ---------------------------------------------------------------- bounds

\* number of invocations (of loadDashboardData, loadAppliedJobs, updateKPIs)
MaxLoads == 2
\* how many of them may be invocations of loadDashboardData
MaxDashboardLoads == 1
\* longest application list a response carries
MaxApps == 2
\* longest status string drawn over StatusAlphabet for getStatusBadge
MaxStatusLen == 4

Slots == 1..MaxLoads

\* ----------------------------------------------------- JavaScript values

Undefined == [t |-> "undefined", v |-> ""]
JsStr(s) == [t |-> "string", v |-> s]

\* a status value: a string (a sequence of characters) or undefined
StatusStr(chars) == [t |-> "string", s |-> chars]
StatusUndefined == [t |-> "undefined", s |-> <<>>]

UpperChars ==
  <<"A", "B", "C", "D", "E", "F", "G", "H", "I", "J", "K", "L", "M",
    "N", "O", "P", "Q", "R", "S", "T", "U", "V", "W", "X", "Y", "Z">>
LowerChars ==
  <<"a", "b", "c", "d", "e", "f", "g", "h", "i", "j", "k", "l", "m",
    "n", "o", "p", "q", "r", "s", "t", "u", "v", "w", "x", "y", "z">>

LowerChar(c) ==
  IF \E k \in DOMAIN UpperChars : UpperChars[k] = c
  THEN LowerChars[CHOOSE k \in DOMAIN UpperChars : UpperChars[k] = c]
  ELSE c

UpperChar(c) ==
  IF \E k \in DOMAIN LowerChars : LowerChars[k] = c
  THEN UpperChars[CHOOSE k \in DOMAIN LowerChars : LowerChars[k] = c]
  ELSE c

\* String.prototype.toLowerCase, character by character
toLowerCase(chars) == [k \in DOMAIN chars |-> LowerChar(chars[k])]

\* the own keys of the object literal `badges`
K_pending == <<"p", "e", "n", "d", "i", "n", "g">>
K_accepted == <<"a", "c", "c", "e", "p", "t", "e", "d">>
K_rejected == <<"r", "e", "j", "e", "c", "t", "e", "d">>
K_interviewing == <<"i", "n", "t", "e", "r", "v", "i", "e", "w", "i", "n", "g">>

BadgeWarning == "<span class=\"badge badge-warning\">Pending</span>"
BadgeSuccess == "<span class=\"badge badge-success\">Accepted</span>"
BadgeError == "<span class=\"badge badge-error\">Rejected</span>"
BadgeInfo == "<span class=\"badge badge-info\">Interview</span>"
BadgeNeutral == "<span class=\"badge badge-neutral\">Unknown</span>"

\* property names every object literal inherits from Object.prototype
P_constructor == <<"c", "o", "n", "s", "t", "r", "u", "c", "t", "o", "r">>
P_proto == <<"_", "_", "p", "r", "o", "t", "o", "_", "_">>
P_toString == <<"t", "o", "S", "t", "r", "i", "n", "g">>
P_valueOf == <<"v", "a", "l", "u", "e", "O", "f">>
P_hasOwnProperty ==
  <<"h", "a", "s", "O", "w", "n", "P", "r", "o", "p", "e", "r", "t", "y">>

ObjectPrototypeFunctions ==
  {P_constructor, P_toString, P_valueOf, P_hasOwnProperty}

\* badges[key]: own property first, then the prototype chain
BadgesGet(key) ==
  CASE key = K_pending -> JsStr(BadgeWarning)
    [] key = K_accepted -> JsStr(BadgeSuccess)
    [] key = K_rejected -> JsStr(BadgeError)
    [] key = K_interviewing -> JsStr(BadgeInfo)
    [] key = P_constructor -> [t |-> "function", v |-> "Object"]
    [] key \in ObjectPrototypeFunctions -> [t |-> "function", v |-> "method"]
    [] key = P_proto -> [t |-> "object", v |-> "Object.prototype"]
    [] OTHER -> Undefined

Truthy(x) == x.t \in {"function", "object"} \/ (x.t = "string" /\ x.v # "")

TypeError == [t |-> "throw", v |-> "TypeError"]

\* getStatusBadge(status): the returned value, or the exception thrown
getStatusBadge(status) ==
  IF status.t # "string"
  THEN TypeError
  ELSE LET statusLower == toLowerCase(status.s)
           found == BadgesGet(statusLower)
       IN IF Truthy(found) THEN found ELSE JsStr(BadgeNeutral)

\* `${value}` inside a template literal
Interpolate(x) ==
  CASE x.t = "string" -> x.v
    [] x.t = "function" /\ x.v = "Object" -> "function Object() { [native code] }"
    [] x.t = "function" -> "function () { [native code] }"
    [] x.t = "object" -> "[object Object]"
    [] OTHER -> "undefined"

\* ------------------------------------------------------------ formatDate

MonthShort ==
  <<"Jan", "Feb", "Mar", "Apr", "May", "Jun",
    "Jul", "Aug", "Sep", "Oct", "Nov", "Dec">>

IsLeap(y) == (y % 4 = 0 /\ y % 100 # 0) \/ y % 400 = 0

DaysIn(y, m) ==
  IF m = 2 THEN (IF IsLeap(y) THEN 29 ELSE 28)
  ELSE IF m \in {4, 6, 9, 11} THEN 30 ELSE 31

\* an applied_date value: a date-only ISO string "y-m-d", or undefined
IsoDate(y, m, d) == [t |-> "string", y |-> y, m |-> m, d |-> d]
DateUndefined == [t |-> "undefined", y |-> 0, m |-> 0, d |-> 0]

\* new Date("y-m-d") is midnight UTC; the calendar day shown is the local one,
\* which is the day before in a time zone behind UTC
LocalDay(ds, west) ==
  IF ~west THEN [y |-> ds.y, m |-> ds.m, d |-> ds.d]
  ELSE IF ds.d > 1 THEN [y |-> ds.y, m |-> ds.m, d |-> ds.d - 1]
  ELSE IF ds.m > 1 THEN [y |-> ds.y, m |-> ds.m - 1, d |-> DaysIn(ds.y, ds.m - 1)]
  ELSE [y |-> ds.y - 1, m |-> 12, d |-> 31]

\* formatDate(dateString): { month: 'short', day: 'numeric', year: 'numeric' }
formatDate(dateString, west) ==
  IF dateString.t # "string"
  THEN [mon |-> "Invalid Date", day |-> 0, year |-> 0]
  ELSE LET l == LocalDay(dateString, west)
       IN [mon |-> MonthShort[l.m], day |-> l.d, year |-> l.y]

\* --------------------------------------------------- application records

AppRecord(id, title, company, status, date) ==
  [id |-> id, job_title |-> title, company |-> company,
   status |-> status, applied_date |-> date]

S_Pending == <<"P", "e", "n", "d", "i", "n", "g">>

RecordPool ==
  { AppRecord(1, "Backend Engineer", "Acme", StatusStr(S_Pending), IsoDate(2024, 1, 5)),
    AppRecord(2, "Data Analyst", "Globex", StatusStr(P_constructor), IsoDate(2024, 3, 1)),
    AppRecord(3, "QA Tester", "Initech", StatusUndefined, DateUndefined) }

\* a response lists every application once: ids are identifiers
AppLists ==
  { l \in UNION { [1..n -> RecordPool] : n \in 1..MaxApps } :
      \A j, k \in DOMAIN l : j # k => l[j].id # l[k].id }

\* what `await response.json()` yields for the applications request
Malformed == [t |-> "malformed", items |-> <<>>]
JsonNull == [t |-> "null", items |-> <<>>]
JsonObject == [t |-> "object", items |-> <<>>]
JsonArray(items) == [t |-> "array", items |-> items]

AppBodies ==
  {Malformed, JsonNull, JsonObject, JsonArray(<<>>)} \cup { JsonArray(l) : l \in AppLists }

\* the content of the table container (its innerHTML)
TableInitial == [kind |-> "initial", rows |-> <<>>]
EmptyState == [kind |-> "empty", rows |-> <<>>]
ErrorRow == [kind |-> "error", rows |-> <<>>]
TableRows(rows) == [kind |-> "rows", rows |-> rows]

\* one <tr> of the template literal of lines 59-71
RowOf(app, badge, west) ==
  [title |-> app.job_title, company |-> app.company,
   badge |-> Interpolate(badge),
   date |-> formatDate(app.applied_date, west), view |-> app.id]

\* applications.map(app => `...`).join('')
MapRows(items, west) ==
  [k \in DOMAIN items |-> RowOf(items[k], getStatusBadge(items[k].status), west)]

MapThrows(items) ==
  \E k \in DOMAIN items : getStatusBadge(items[k].status).t = "throw"

\* renderEmptyState(container, ...)
renderEmptyState(cur) == EmptyState

\* a catch block that only logs, as the one of updateKPIs does
CatchApplicationsSilent(cur) == cur

\* the catch block of loadAppliedJobs
CatchApplications(cur) == ErrorRow

\* loadAppliedJobs from `await response.json()` on: the line it ends at and
\* the container's content
AfterApplicationsJson(body, cur, west) ==
  IF body.t = "malformed"
  THEN [pc |-> "L73", table |-> CatchApplications(cur)]
  ELSE IF body.t = "null" \/ (body.t = "array" /\ Len(body.items) = 0)
  THEN [pc |-> "L55", table |-> renderEmptyState(cur)]
  ELSE IF body.t # "array" \/ MapThrows(body.items)
  THEN [pc |-> "L73", table |-> CatchApplications(cur)]
  ELSE [pc |-> "L71", table |-> TableRows(MapRows(body.items, west))]

\* ------------------------------------------------------------------ KPIs

KpiIds ==
  {"kpiTotalApplications", "kpiPendingApplications",
   "kpiAcceptedApplications", "kpiRejectedApplications"}

KpiKey(id) ==
  CASE id = "kpiTotalApplications" -> "total"
    [] id = "kpiPendingApplications" -> "pending"
    [] id = "kpiAcceptedApplications" -> "accepted"
    [] id = "kpiRejectedApplications" -> "rejected"

StatKeys == {"total", "pending", "accepted", "rejected"}

\* a decoded stats body: an object with some of the four fields, null, or
\* a body that does not decode
StatsObject(has, total, pending, accepted, rejected) ==
  [t |-> "object", has |-> has,
   val |-> [k \in StatKeys |->
             CASE k = "total" -> total [] k = "pending" -> pending
               [] k = "accepted" -> accepted [] k = "rejected" -> rejected]]
StatsNull == [t |-> "null", has |-> {}, val |-> [k \in StatKeys |-> 0]]
StatsMalformed == [t |-> "malformed", has |-> {}, val |-> [k \in StatKeys |-> 0]]

StatsObjects ==
  { StatsObject(StatKeys, 5, 2, 2, 1),
    StatsObject(StatKeys \ {"pending"}, 3, 0, 1, 2) }

StatsBodies == StatsObjects \cup {StatsNull, StatsMalformed}

\* stats.k || 0
OrZero(body, k) == IF k \in body.has /\ body.val[k] # 0 THEN body.val[k] ELSE 0

\* the text a number takes when assigned to textContent
NumText(n) ==
  CASE n = 0 -> "0" [] n = 1 -> "1" [] n = 2 -> "2" [] n = 3 -> "3"
    [] n = 4 -> "4" [] n = 5 -> "5" [] OTHER -> "many"

KpiInitialText == "initial"

\* a loop that is cut short after the first two counters
KpiWritePartial(text, body, els) ==
  [id \in KpiIds |->
     IF id \in els /\ id \in {"kpiTotalApplications", "kpiPendingApplications"}
     THEN NumText(OrZero(body, KpiKey(id)))
     ELSE text[id]]

\* Object.keys(kpiMap).forEach(...): every counter element that exists gets
\* its value, in one synchronous loop
KpiWrite(text, body, els) ==
  [id \in KpiIds |->
     IF id \in els THEN NumText(OrZero(body, KpiKey(id))) ELSE text[id]]

\* a catch block that resets the counters
CatchKPIsReset(text) == [id \in KpiIds |-> "0"]

\* the catch block of updateKPIs
CatchKPIs(text) == text

\* updateKPIs from `await response.json()` on
AfterStatsJson(body, text, els) ==
  IF body.t # "object"
  THEN [pc |-> "L98", text |-> CatchKPIs(text)]
  ELSE [pc |-> "L96", text |-> KpiWrite(text, body, els)]

\* ----------------------------------------------------------------- state

VARIABLES
  notifImpl,         \* what this.loadNotifications is
  mainPresent,       \* document.querySelector('.dashboard-main') finds one
  containerPresent,  \* document.getElementById('appliedJobsTable') finds one
  kpiEls,            \* the KPI counter elements that exist
  initPc,            \* where init() is
  initSlot,          \* the invocation of loadDashboardData made by init(), or 0
  nextLoad,          \* invocations made so far
  running,           \* the invocation whose synchronous code is running, or 0
  ldPc,              \* per invocation: where loadDashboardData is
  loadingCalls,      \* per invocation: the arguments of its setLoading calls
  loadingFade,       \* main.classList contains 'loading-fade'
  appPc,             \* per invocation: where loadAppliedJobs is
  applications,      \* `applications` of the latest loadAppliedJobs that decoded a body
  notifPc,           \* per invocation: the state of loadNotifications()
  kpiPc,             \* per invocation: where updateKPIs is
  table,             \* innerHTML of #appliedJobsTable
  kpiText,           \* textContent of the four KPI counters
  badgeArg,          \* argument of the latest direct getStatusBadge call
  badgeRet           \* what that call returned or threw

envVars ==
  <<notifImpl, mainPresent, containerPresent, kpiEls>>
initVars == <<initPc, initSlot>>
loaderVars == <<ldPc, loadingCalls, loadingFade>>
appVars == <<appPc, applications, table>>
kpiVars == <<kpiPc, kpiText>>
badgeVars == <<badgeArg, badgeRet>>
vars ==
  <<envVars, initVars, nextLoad, running, loaderVars, appVars, notifPc,
    kpiVars, badgeVars>>

\* loadNotifications is not defined in the object literal, so that calling it
\* throws a TypeError ("undefined"); another script may add one to the exported
\* object, which returns a promise ("async").  One that throws when called
\* takes the same path as "undefined".
NotifImpls == {"undefined", "async"}

\* the pages the script is loaded on: the dashboard with every element the
\* script looks up, a page that has neither the main element nor the table
\* and lacks one counter, and a page with none of the elements
Pages ==
  { [main |-> TRUE, container |-> TRUE, kpis |-> KpiIds],
    [main |-> FALSE, container |-> FALSE,
     kpis |-> KpiIds \ {"kpiPendingApplications"}],
    [main |-> FALSE, container |-> FALSE, kpis |-> {}] }

NoBody == [t |-> "none", items |-> <<>>]
NoStatus == [t |-> "none", s |-> <<>>]
NoReturn == [t |-> "none", v |-> ""]

Init ==
  /\ notifImpl \in NotifImpls
  /\ \E page \in Pages :
       /\ mainPresent = page.main
       /\ containerPresent = page.container
       /\ kpiEls = page.kpis
  /\ initPc = "idle"
  /\ initSlot = 0
  /\ nextLoad = 0
  /\ running = 0
  /\ ldPc = [i \in Slots |-> "idle"]
  /\ loadingCalls = [i \in Slots |-> <<>>]
  /\ loadingFade = FALSE
  /\ appPc = [i \in Slots |-> "idle"]
  /\ applications = NoBody
  /\ notifPc = [i \in Slots |-> "idle"]
  /\ kpiPc = [i \in Slots |-> "idle"]
  /\ table = TableInitial
  /\ kpiText = [id \in KpiIds |-> KpiInitialText]
  /\ badgeArg = NoStatus
  /\ badgeRet = NoReturn

\* ------------------------------------------------------------------ init

\* init() has still to call loadDashboardData
InitNeedsSlot == initPc \in {"idle", "L13"}

\* `await this.loadDashboardData()` of init(): the call runs synchronously
InitCallsLoad ==
  /\ initPc' = "L17"
  /\ initSlot' = nextLoad + 1
  /\ nextLoad' = nextLoad + 1
  /\ running' = nextLoad + 1
  /\ ldPc' = [ldPc EXCEPT ![nextLoad + 1] = "L25"]

\* the DOMContentLoaded listener, and init() up to its first await;
\* pathHasJobseeker: window.location.pathname.includes('/jobseeker'),
\* baseDefined: typeof DashboardBase !== 'undefined'
DOMContentLoaded(pathHasJobseeker, baseDefined) ==
  /\ initPc = "idle"
  /\ running = 0
  /\ IF ~pathHasJobseeker
     THEN /\ initPc' = "skipped"
          /\ UNCHANGED <<initSlot, nextLoad, running, ldPc>>
     ELSE IF baseDefined
     THEN /\ initPc' = "L13"
          /\ UNCHANGED <<initSlot, nextLoad, running, ldPc>>
     ELSE InitCallsLoad
  /\ UNCHANGED <<envVars, loadingCalls, loadingFade, appVars, notifPc, kpiVars, badgeVars>>

\* where init() goes when the awaited DashboardBase.init() has rejected
InitOnBaseRejected == "rejected"

\* DashboardBase.init() settles: init() goes on, or rejects
BaseInitSettle(ok) ==
  /\ initPc = "L13"
  /\ running = 0
  /\ IF ok
     THEN InitCallsLoad
     ELSE /\ initPc' = InitOnBaseRejected
          /\ UNCHANGED <<initSlot, nextLoad, running, ldPc>>
  /\ UNCHANGED <<envVars, loadingCalls, loadingFade, appVars, notifPc, kpiVars, badgeVars>>

\* the awaited loadDashboardData() has resolved: init() returns
InitResume ==
  /\ initPc = "L17"
  /\ running = 0
  /\ ldPc[initSlot] = "L39"
  /\ initPc' = "L18"
  /\ UNCHANGED <<envVars, initSlot, nextLoad, running, loaderVars, appVars, notifPc,
                 kpiVars, badgeVars>>

\* ------------------------------------------------------ loadDashboardData

\* other scripts call the exported object once the page has loaded; slots
\* are taken in order, and one is kept for init() while it has still to load
FreeSlot ==
  /\ running = 0
  /\ initPc # "idle"
  /\ nextLoad + 1 + (IF InitNeedsSlot THEN 1 ELSE 0) <= MaxLoads

DashboardLoads == Cardinality({i \in Slots : ldPc[i] \notin {"idle", "none"}})

\* another script calls window.JobseekerDashboard.loadDashboardData()
CallLoadDashboardData ==
  /\ FreeSlot
  /\ DashboardLoads + (IF InitNeedsSlot THEN 1 ELSE 0) < MaxDashboardLoads
  /\ nextLoad' = nextLoad + 1
  /\ running' = nextLoad + 1
  /\ ldPc' = [ldPc EXCEPT ![nextLoad + 1] = "L25"]
  /\ UNCHANGED <<envVars, initVars, loadingCalls, loadingFade, appVars, notifPc,
                 kpiVars, badgeVars>>

\* setLoading(isLoading): the class is toggled only if the element exists
setLoading(fade, isLoading) == IF mainPresent THEN isLoading ELSE fade

\* this.setLoading(true)
SetLoadingTrue(i) ==
  /\ running = i
  /\ ldPc[i] = "L25"
  /\ loadingCalls' = [loadingCalls EXCEPT ![i] = Append(@, TRUE)]
  /\ loadingFade' = setLoading(loadingFade, TRUE)
  /\ ldPc' = [ldPc EXCEPT ![i] = "L30"]
  /\ UNCHANGED <<envVars, initVars, nextLoad, running, appVars, notifPc, kpiVars,
                 badgeVars>>

\* loadAppliedJobs() up to its first await: returns at once without the
\* container, else issues the applications request
loadAppliedJobsStart == IF containerPresent THEN "L50" ELSE "L46"

\* this.loadAppliedJobs(), first element of the array literal
StartAppliedJobs(i) ==
  /\ running = i
  /\ ldPc[i] = "L30"
  /\ appPc' = [appPc EXCEPT ![i] = loadAppliedJobsStart]
  /\ ldPc' = [ldPc EXCEPT ![i] = "L31"]
  /\ UNCHANGED <<envVars, initVars, nextLoad, running, loadingCalls, loadingFade,
                 applications, table, notifPc, kpiVars, badgeVars>>

\* without the try statement the exception leaves loadDashboardData
OnGroupFailureUncaught == "rejected"

\* where control goes when something inside the try block throws or the
\* awaited Promise.all rejects: the catch clause
OnGroupFailure == "L35"

\* this.loadNotifications(), second element of the array literal: calling
\* undefined throws a TypeError before updateKPIs is reached
StartNotifications(i) ==
  /\ running = i
  /\ ldPc[i] = "L31"
  /\ IF notifImpl = "async"
     THEN /\ notifPc' = [notifPc EXCEPT ![i] = "pending"]
          /\ ldPc' = [ldPc EXCEPT ![i] = "L32"]
     ELSE /\ notifPc' = [notifPc EXCEPT ![i] = "threw"]
          /\ ldPc' = [ldPc EXCEPT ![i] = OnGroupFailure]
  /\ UNCHANGED <<envVars, initVars, nextLoad, running, loadingCalls, loadingFade,
                 appVars, kpiVars, badgeVars>>

\* this.updateKPIs(), third element: issues the stats request; then
\* Promise.all is called and awaited, which ends the job
StartKPIs(i) ==
  /\ running = i
  /\ ldPc[i] = "L32"
  /\ kpiPc' = [kpiPc EXCEPT ![i] = "L82"]
  /\ ldPc' = [ldPc EXCEPT ![i] = "L29"]
  /\ running' = 0
  /\ UNCHANGED <<envVars, initVars, nextLoad, loadingCalls, loadingFade, appVars,
                 notifPc, kpiText, badgeVars>>

AppSettled(i) == appPc[i] \in {"L46", "L55", "L71", "L73"}
KpiSettled(i) == kpiPc[i] \in {"L96", "L98"}

\* Promise.all rejects as soon as one member rejects, and fulfils once all
\* members have; loadAppliedJobs and updateKPIs never reject
PromiseAllSettle(i) ==
  /\ running = 0
  /\ ldPc[i] = "L29"
  /\ \/ /\ notifPc[i] = "rejected"
        /\ ldPc' = [ldPc EXCEPT ![i] = OnGroupFailure]
     \/ /\ notifPc[i] = "fulfilled"
        /\ AppSettled(i)
        /\ KpiSettled(i)
        /\ ldPc' = [ldPc EXCEPT ![i] = "L37"]
  /\ running' = i
  /\ UNCHANGED <<envVars, initVars, nextLoad, loadingCalls, loadingFade, appVars,
                 notifPc, kpiVars, badgeVars>>

\* catch (error) { console.error(...) }
CatchGroup(i) ==
  /\ running = i
  /\ ldPc[i] = "L35"
  /\ ldPc' = [ldPc EXCEPT ![i] = "L37"]
  /\ UNCHANGED <<envVars, initVars, nextLoad, running, loadingCalls, loadingFade,
                 appVars, notifPc, kpiVars, badgeVars>>

\* finally { this.setLoading(false) }, and the function returns
Finally(i) ==
  /\ running = i
  /\ ldPc[i] = "L37"
  /\ loadingCalls' = [loadingCalls EXCEPT ![i] = Append(@, FALSE)]
  /\ loadingFade' = setLoading(loadingFade, FALSE)
  /\ ldPc' = [ldPc EXCEPT ![i] = "L39"]
  /\ running' = 0
  /\ UNCHANGED <<envVars, initVars, nextLoad, appVars, notifPc, kpiVars, badgeVars>>

\* the promise a defined loadNotifications returned settles
NotifSettle(i, ok) ==
  /\ running = 0
  /\ notifPc[i] = "pending"
  /\ notifPc' = [notifPc EXCEPT ![i] = IF ok THEN "fulfilled" ELSE "rejected"]
  /\ UNCHANGED <<envVars, initVars, nextLoad, running, loaderVars, appVars, kpiVars,
                 badgeVars>>

\* -------------------------------------------------------- loadAppliedJobs

\* another script calls window.JobseekerDashboard.loadAppliedJobs()
CallLoadAppliedJobs ==
  /\ FreeSlot
  /\ nextLoad' = nextLoad + 1
  /\ ldPc' = [ldPc EXCEPT ![nextLoad + 1] = "none"]
  /\ appPc' = [appPc EXCEPT ![nextLoad + 1] = loadAppliedJobsStart]
  /\ UNCHANGED <<envVars, initVars, running, loadingCalls, loadingFade,
                 applications, table, notifPc, kpiVars, badgeVars>>

\* fetch('/api/jobseeker/applications') settles: with a response, which
\* response.json() then reads, or with a rejection, which the catch block
\* handles
AppsFetchSettle(i, ok) ==
  /\ running = 0
  /\ appPc[i] = "L50"
  /\ IF ok
     THEN /\ appPc' = [appPc EXCEPT ![i] = "L51"]
          /\ table' = table
     ELSE /\ appPc' = [appPc EXCEPT ![i] = "L73"]
          /\ table' = CatchApplications(table)
  /\ UNCHANGED applications
  /\ UNCHANGED <<envVars, initVars, nextLoad, running, loaderVars, notifPc, kpiVars,
                 badgeVars>>

\* a loader that drops the response of a request that is no longer the latest
AppsJsonSettleLatestOnly(i, body, west) ==
  /\ running = 0
  /\ appPc[i] = "L51"
  /\ LET r == AfterApplicationsJson(body, table, west)
     IN /\ appPc' = [appPc EXCEPT ![i] = r.pc]
        /\ table' = IF \E j \in Slots : j > i /\ appPc[j] # "idle" THEN table ELSE r.table
  /\ applications' = body
  /\ UNCHANGED <<envVars, initVars, nextLoad, running, loaderVars, notifPc, kpiVars,
                 badgeVars>>

\* response.json() settles, with the decoded body or (Malformed) with a
\* rejection, and the rest of loadAppliedJobs runs; west: the time zone in
\* effect is behind UTC
AppsJsonSettle(i, body, west) ==
  /\ running = 0
  /\ appPc[i] = "L51"
  /\ LET r == AfterApplicationsJson(body, table, west)
     IN /\ appPc' = [appPc EXCEPT ![i] = r.pc]
        /\ table' = r.table
  /\ applications' = body
  /\ UNCHANGED <<envVars, initVars, nextLoad, running, loaderVars, notifPc, kpiVars,
                 badgeVars>>

\* ------------------------------------------------------------- updateKPIs

\* another script calls window.JobseekerDashboard.updateKPIs()
CallUpdateKPIs ==
  /\ FreeSlot
  /\ nextLoad' = nextLoad + 1
  /\ ldPc' = [ldPc EXCEPT ![nextLoad + 1] = "none"]
  /\ kpiPc' = [kpiPc EXCEPT ![nextLoad + 1] = "L82"]
  /\ UNCHANGED <<envVars, initVars, running, loadingCalls, loadingFade, appVars,
                 notifPc, kpiText, badgeVars>>

\* fetch('/api/jobseeker/stats') settles
KpiFetchSettle(i, ok) ==
  /\ running = 0
  /\ kpiPc[i] = "L82"
  /\ IF ok
     THEN /\ kpiPc' = [kpiPc EXCEPT ![i] = "L83"]
          /\ kpiText' = kpiText
     ELSE /\ kpiPc' = [kpiPc EXCEPT ![i] = "L98"]
          /\ kpiText' = CatchKPIs(kpiText)
  /\ UNCHANGED <<envVars, initVars, nextLoad, running, loaderVars, appVars, notifPc,
                 badgeVars>>

\* response.json() settles, with the decoded body or (StatsMalformed) with
\* a rejection, and the rest of updateKPIs runs
KpiJsonSettle(i, body) ==
  /\ running = 0
  /\ kpiPc[i] = "L83"
  /\ LET r == AfterStatsJson(body, kpiText, kpiEls)
     IN /\ kpiPc' = [kpiPc EXCEPT ![i] = r.pc]
        /\ kpiText' = r.text
  /\ UNCHANGED <<envVars, initVars, nextLoad, running, loaderVars, appVars, notifPc,
                 badgeVars>>

\* ---------------------------------------------------------- specification

\* steps of the job queue and of the network
Internal ==
  \/ \E ok \in BOOLEAN : BaseInitSettle(ok)
  \/ InitResume
  \/ \E i \in Slots :
       \/ SetLoadingTrue(i)
       \/ StartAppliedJobs(i)
       \/ StartNotifications(i)
       \/ StartKPIs(i)
       \/ PromiseAllSettle(i)
       \/ CatchGroup(i)
       \/ Finally(i)
       \/ \E ok \in BOOLEAN : NotifSettle(i, ok)
       \/ \E ok \in BOOLEAN : AppsFetchSettle(i, ok)
       \/ \E body \in AppBodies, west \in BOOLEAN : AppsJsonSettle(i, body, west)
       \/ \E ok \in BOOLEAN : KpiFetchSettle(i, ok)
       \/ \E body \in StatsBodies : KpiJsonSettle(i, body)

\* events from outside: the page load and calls by other scripts
External ==
  \/ \E pathHasJobseeker \in BOOLEAN, baseDefined \in BOOLEAN :
       DOMContentLoaded(pathHasJobseeker, baseDefined)
  \/ CallLoadDashboardData
  \/ CallLoadAppliedJobs
  \/ CallUpdateKPIs

Next == Internal \/ External

Spec == Init /\ [][Next]_vars

\* the job queue runs every job that is ready, and every request and every
\* promise of a collaborator settles
FairSpec == Spec /\ WF_vars(Internal)

\* ------------------------------------------------- getStatusBadge, direct

StatusAlphabet == {"a", "A", "_"}

ShortStrings == UNION { [1..n -> StatusAlphabet] : n \in 0..MaxStatusLen }

W_withdrawn == <<"w", "i", "t", "h", "d", "r", "a", "w", "n">>
W_interview == <<"i", "n", "t", "e", "r", "v", "i", "e", "w">>
W_pendingSpace == <<"p", "e", "n", "d", "i", "n", "g", " ">>

StatusWords ==
  {K_pending, K_accepted, K_rejected, K_interviewing, P_constructor, P_proto,
   P_toString, P_valueOf, P_hasOwnProperty, W_withdrawn, W_interview,
   W_pendingSpace}

toUpperCase(chars) == [k \in DOMAIN chars |-> UpperChar(chars[k])]
Capitalized(chars) ==
  [k \in DOMAIN chars |-> IF k = 1 THEN UpperChar(chars[k]) ELSE chars[k]]

StatusStrings ==
  ShortStrings \cup StatusWords
    \cup { toUpperCase(w) : w \in StatusWords }
    \cup { Capitalized(w) : w \in StatusWords }

StatusInputs == { StatusStr(c) : c \in StatusStrings } \cup {StatusUndefined}

\* another script, or a row template, calls getStatusBadge(status)
CallGetStatusBadge(status) ==
  /\ badgeArg' = status
  /\ badgeRet' = getStatusBadge(status)
  /\ UNCHANGED <<envVars, initVars, nextLoad, running, loaderVars, appVars, notifPc,
                 kpiVars>>

BadgeNext == \E status \in StatusInputs : CallGetStatusBadge(status)

BadgeSpec == Init /\ [][BadgeNext]_vars

\* ---------------------------------------------------------------- claims

AppInFlight(i) == appPc[i] \in {"L50", "L51"}
KpiInFlight(i) == kpiPc[i] \in {"L82", "L83"}
IsDashboardLoad(i) == ldPc[i] \notin {"idle", "none"}

\* C1: in every invocation of loadDashboardData, setLoading(true) is called
\* before any member operation is started, the invocation never rejects, and
\* it always goes on to call setLoading(false) and return, whatever the
\* members do (succeed, fail, throw when called, or be undefined).
C1_LoadingBracket ==
  /\ [](\A i \in Slots :
          (IsDashboardLoad(i)
             /\ (appPc[i] # "idle" \/ notifPc[i] # "idle" \/ kpiPc[i] # "idle"))
            => (Len(loadingCalls[i]) >= 1 /\ loadingCalls[i][1] = TRUE))
  /\ [](\A i \in Slots : ldPc[i] # "rejected")
  /\ \A i \in Slots :
       (ldPc[i] = "L25") ~> (ldPc[i] = "L39" /\ loadingCalls[i] = <<TRUE, FALSE>>)

\* an invocation whose notifications member threw or rejected has returned
\* with setLoading(true) and setLoading(false) called in that order
C1_Witness ==
  \E i \in Slots :
    /\ ldPc[i] = "L39"
    /\ notifPc[i] \in {"threw", "rejected"}
    /\ loadingCalls[i] = <<TRUE, FALSE>>

\* C2: an invocation of loadDashboardData that has called setLoading(false)
\* has no applications or stats request of its own still in flight.
C2_ClearedOnlyAfterAllSettled ==
  \A i \in Slots :
    (IsDashboardLoad(i) /\ Len(loadingCalls[i]) = 2)
      => (~AppInFlight(i) /\ ~KpiInFlight(i))

\* C3: every invocation of loadDashboardData that has returned has launched
\* all three members: the applications load, the notifications load and the
\* KPI update (whose stats request has therefore been issued).
C3_AllMembersLaunched ==
  \A i \in Slots :
    ldPc[i] = "L39"
      => (appPc[i] # "idle" /\ notifPc[i] # "idle" /\ kpiPc[i] # "idle")

\* the badge the mapping assigns to a status string
MappedBadge(chars) ==
  LET l == toLowerCase(chars)
  IN CASE l = K_pending -> BadgeWarning
       [] l = K_accepted -> BadgeSuccess
       [] l = K_rejected -> BadgeError
       [] l = K_interviewing -> BadgeInfo
       [] OTHER -> BadgeNeutral

\* C4: for every status string, getStatusBadge returns the warning, success,
\* error or info badge when the lowercased string is one of the four keys,
\* and the neutral Unknown badge for every other string; it never throws.
C4_BadgeTotal ==
  badgeArg.t = "string" => badgeRet = JsStr(MappedBadge(badgeArg.s))

\* C5: when the applications fetch fails (the request rejects, or the body
\* does not decode), that call of loadAppliedJobs leaves the container
\* holding exactly the error row and returns normally.
C5_FailureRendersErrorRow ==
  [][\A i \in Slots :
       ((appPc[i] = "L50" /\ appPc'[i] \notin {"L50", "L51"})
          \/ (appPc[i] = "L51" /\ appPc'[i] # "L51" /\ applications' = Malformed))
         => (table' = ErrorRow /\ appPc'[i] = "L73")]_vars

\* a call whose request was rejected (no body was ever decoded) has returned
\* and the container holds the error row
C5_Witness ==
  \E i \in Slots :
    appPc[i] = "L73" /\ applications = NoBody /\ table = ErrorRow

\* C6: when the stats fetch fails (the request rejects, the body does not
\* decode, or it decodes to null), that call of updateKPIs changes none of
\* the four counters and returns normally.
C6_FailureLeavesCounters ==
  [][\A i \in Slots :
       (KpiInFlight(i) /\ kpiPc'[i] \notin {"L82", "L83", "L96"})
         => (kpiText' = kpiText /\ kpiPc'[i] = "L98")]_vars

\* a call of updateKPIs has failed after another one wrote the counters, and
\* the counters still show what was written
C6_Witness ==
  \E i, j \in Slots :
    /\ kpiPc[i] = "L98"
    /\ kpiPc[j] = "L96"
    /\ kpiEls = KpiIds
    /\ \A id \in KpiIds : kpiText[id] # KpiInitialText

\* the row the claim expects for a record
ClaimedRowMatches(row, app) ==
  /\ row.title = app.job_title
  /\ row.company = app.company
  /\ row.badge = (IF app.status.t = "string"
                  THEN MappedBadge(app.status.s) ELSE BadgeNeutral)
  /\ \E west \in BOOLEAN : row.date = formatDate(app.applied_date, west)
  /\ row.view = app.id

\* C7: when the only call of loadAppliedJobs made so far decoded a non-empty
\* list of N records and returned, the container holds exactly N rows, in
\* list order, the k-th showing the k-th record's title, company, mapped
\* badge, formatted date and a View action for its id.
C7_RowPerRecord ==
  \A i \in Slots :
    ( /\ \A j \in Slots : j # i => appPc[j] = "idle"
      /\ appPc[i] \in {"L55", "L71", "L73"}
      /\ applications.t = "array"
      /\ Len(applications.items) > 0 )
    => ( /\ table.kind = "rows"
         /\ Len(table.rows) = Len(applications.items)
         /\ \A k \in DOMAIN applications.items :
              ClaimedRowMatches(table.rows[k], applications.items[k]) )

\* C8: nothing cancels or orders overlapping loads: starting another
\* invocation leaves every request in flight as it is, every response is
\* rendered when it arrives whether or not a newer request exists, and only
\* an arriving response changes the container, so that the container holds
\* what the response that arrived last rendered.
C8_LastArrivalWins ==
  [][/\ \A i \in Slots :
          /\ (AppInFlight(i) /\ nextLoad' # nextLoad) => appPc'[i] = appPc[i]
          /\ (AppInFlight(i) /\ appPc'[i] = "L73") => table' = ErrorRow
          /\ (AppInFlight(i) /\ appPc'[i] = "L55") => table' = EmptyState
          /\ (AppInFlight(i) /\ appPc'[i] = "L71")
               => /\ table'.kind = "rows"
                  /\ Len(table'.rows) = Len(applications'.items)
                  /\ \A k \in DOMAIN table'.rows :
                       table'.rows[k].view = applications'.items[k].id
     /\ table' # table
          => \E i \in Slots : AppInFlight(i) /\ appPc'[i] \in {"L55", "L71", "L73"}
    ]_vars

\* two overlapping calls have both settled; the later request ended with the
\* empty state or the error row, yet the container shows the rows of the
\* earlier request, whose response arrived last
C8_Witness ==
  \E i, j \in Slots :
    /\ i < j
    /\ appPc[i] = "L71"
    /\ appPc[j] \in {"L55", "L73"}
    /\ table.kind = "rows"

\* C9: every execution of init() that has ended has invoked
\* loadDashboardData once, whether DashboardBase was absent, its init()
\* fulfilled, or its init() rejected.
C9_InitAlwaysLoads ==
  initPc \in {"L18", "rejected"} => initSlot # 0

\* what the counters show after the values of one stats response were written
CountersOf(body) ==
  [id \in KpiIds |->
     IF id \in kpiEls
     THEN (IF KpiKey(id) \in body.has THEN NumText(body.val[KpiKey(id)]) ELSE "0")
     ELSE KpiInitialText]

\* C10: the counters always show either their initial texts or the values
\* of one single stats response (absent fields as 0), never fields of two
\* responses.
C10_CountersFromOneResponse ==
  \/ \A id \in KpiIds : kpiText[id] = KpiInitialText
  \/ \E body \in StatsObjects : kpiText = CountersOf(body)

\* two calls of updateKPIs have both written all four counters
C10_Witness ==
  /\ kpiEls = KpiIds
  /\ \A i \in Slots : kpiPc[i] = "L96"
  /\ kpiText["kpiTotalApplications"] = "3"

====
